---- MODULE Spec2Model ----
(***************************************************************************)
(* Model of the kernel-capability resolver (pkg/util/ebpf/bpf.go) and of   *)
(* the Postgres instrumentation module (user/module, PostgresModule).      *)
(*                                                                         *)
(* Go strings are sequences of one-character strings.  Results of Go       *)
(* functions returning (value, error) are records with an ok field.        *)
(***************************************************************************)
EXTENDS Integers, Sequences, FiniteSets, TLC

VARIABLES
    \* ---- release-string parsing / version packing (bpf.go:187-199, 284-318)
    pOp,            \* the function last applied
    pToks,          \* the lexemes the input string was built from
    pIn,            \* the input string handed to the function
    pBytes,         \* <<major, minor, patch>> handed to VersionCode
    pOut,           \* what the function returned
    \* ---- HostVersion (bpf.go:164-185, 202-271)
    hostVersion,    \* var hostVersion Version (process-wide cache)
    sigFile,        \* content of /proc/version_signature, or Missing
    versionFile,    \* content of /proc/version, or Missing
    unameRel,       \* release field of uname(2), or Missing when the call fails
    hvRet,          \* what the last HostVersion call returned
    hvLog,          \* the strategies the last call ran, in order
    hvFresh,        \* no source has changed since the last call ran
    hvCalls,        \* number of HostVersion calls made
    firstOk,        \* value of the first successful call (NoVal before)
    firstNZ,        \* value of the first successful non-zero call (NoVal before)
    hadOk,          \* firstOk as it was before the last call
    hadNZ,          \* firstNZ as it was before the last call
    \* ---- feature detection (bpf.go:65-146)
    kernelConfig,   \* what GetSystemConfig returns: a map, or Unreadable
    fixedBTF,       \* /sys/kernel/btf/vmlinux exists
    unameOk,        \* getOSUnamer succeeds
    locExists,      \* for each entry of locations: the formatted path exists
    fOp,            \* the check last run
    fRet,           \* what it returned
    fLog,           \* the sources it consulted, in order
    \* ---- PostgresModule (part_000)
    inited,         \* Init has run (logger, conf set)
    isCoreUsed,     \* the capability resolution's portable-support boolean
    bpfManager,     \* postgresModule.bpfManager: NilMgr or a manager id
    mgrState,       \* state of every manager object created so far
    attached,       \* managers whose probe is attached in the kernel
    nextMgr,        \* number of manager objects created so far
    eventMaps,      \* postgresModule.eventMaps
    eventFuncMaps,  \* postgresModule.eventFuncMaps: NilMap or handle -> decoder
    crashed,        \* the process died of a runtime panic
    mOp,            \* the operation last called
    mRet,           \* what it returned
    registered,     \* every handle initDecodeFun has ever bound
    lastStart,      \* result of the latest Start since Init ("none": none yet)
    newlyAttached,  \* managers the last Start call attached
    resolvedName,   \* bpfFileName resolved by the last Start
    loadedAsset,    \* asset name the last Start fetched
    attachOrder,    \* steps of the last Start: "stat", "attach"
    decodeRet,      \* what the last DecodeFun returned
    decodeArg,      \* the handle it was asked about
    eventsRet       \* what the last Events returned

parseVars == <<pOp, pToks, pIn, pBytes, pOut>>
hostVars == <<hostVersion, sigFile, versionFile, unameRel, hvRet, hvLog, hvFresh,
              hvCalls, firstOk, firstNZ, hadOk, hadNZ>>
featVars == <<kernelConfig, fixedBTF, unameOk, locExists, fOp, fRet, fLog>>
modVars == <<inited, isCoreUsed, bpfManager, mgrState, attached, nextMgr,
             eventMaps, eventFuncMaps, crashed, mOp, mRet, registered, lastStart,
             newlyAttached, resolvedName, loadedAsset, attachOrder, decodeRet,
             decodeArg, eventsRet>>
vars == <<parseVars, hostVars, featVars, modVars>>

-----------------------------------------------------------------------------
(* Bounds of the model *)

\* longest input string, in lexemes (a digit run or one separator character)
MaxToks == 5
\* number of entries of the locations list scanned by findVMLinux
NumLocations == 2
\* number of manager objects (calls of setupManagers that get past os.Stat)
MaxManagers == 3
\* number of HostVersion calls followed
MaxCalls == 3

-----------------------------------------------------------------------------
(* Strings *)

Digits == {"0", "1", "2", "3", "4", "5", "6", "7", "8", "9"}

DigitVal(c) ==
    CASE c = "0" -> 0 [] c = "1" -> 1 [] c = "2" -> 2 [] c = "3" -> 3
      [] c = "4" -> 4 [] c = "5" -> 5 [] c = "6" -> 6 [] c = "7" -> 7
      [] c = "8" -> 8 [] c = "9" -> 9

\* F applied to the value of v, which is computed once
Let1(v, F(_)) == CHOOSE r \in { F(x) : x \in {v} } : TRUE

Max(S) == Let1(S, LAMBDA T : CHOOSE x \in T : \A y \in T : y <= x)
Min(S) == Let1(S, LAMBDA T : CHOOSE x \in T : \A y \in T : x <= y)

\* index of the last character of the longest digit run starting at i (i-1: none)
RECURSIVE DigitRunEnd(_, _)
DigitRunEnd(s, i) ==
    IF i <= Len(s) /\ s[i] \in Digits THEN DigitRunEnd(s, i + 1) ELSE i - 1

\* index of the last of the spaces starting at i (i-1: none)
RECURSIVE SpaceRunEnd(_, _)
SpaceRunEnd(s, i) ==
    IF i <= Len(s) /\ s[i] = " " THEN SpaceRunEnd(s, i + 1) ELSE i - 1

\* value of the first n characters of s, all digits, read as a decimal number
RECURSIVE DecimalPrefix(_, _)
DecimalPrefix(s, n) ==
    IF n = 0 THEN 0 ELSE 10 * DecimalPrefix(s, n - 1) + DigitVal(s[n])

DecimalValue(s) == DecimalPrefix(s, Len(s))

RECURSIVE Flatten(_)
Flatten(ss) == IF ss = <<>> THEN <<>> ELSE Head(ss) \o Flatten(Tail(ss))

\* strconv.ParseUint(s, 10, 8) on a string of digits: a syntax error on the
\* empty string (value 0), a range error above 255 (value 255)
ParseUint8(s) ==
    IF s = <<>> THEN [val |-> 0, err |-> "syntax"]
    ELSE Let1(DecimalValue(s),
              LAMBDA v : IF v > 255 THEN [val |-> 255, err |-> "range"]
                         ELSE [val |-> v, err |-> "nil"])

-----------------------------------------------------------------------------
(* Version packing: bpf.go:187-199 *)

\* func VersionCode(major, minor, patch byte) Version.  The arguments are bytes,
\* so the uint32 sum is below 2^24 and never wraps.
VersionCode(major, minor, patch) ==
    (major * 65536) + (minor * 256) + patch

\* One %d of fmt.Sscanf into a byte, reading s from index i: leading spaces are
\* skipped, a digit run is required, a value above 255 is an overflow error and
\* stores nothing.
ScanByte(s, i) ==
    Let1(SpaceRunEnd(s, i), LAMBDA sp :
    Let1(DigitRunEnd(s, sp + 1), LAMBDA e :
    Let1(DecimalValue(SubSeq(s, sp + 1, e)), LAMBDA v :
        IF e < sp + 1 THEN [ok |-> FALSE, val |-> 0, next |-> sp + 1]
        ELSE IF v > 255 THEN [ok |-> FALSE, val |-> 0, next |-> e + 1]
        ELSE [ok |-> TRUE, val |-> v, next |-> e + 1])))

\* func ParseVersion(s string) Version: Sscanf(s, "%d.%d.%d", &a, &b, &c) with
\* the error dropped, so a, b, c keep 0 from the first mismatch on.
ParseVersion(s) ==
    Let1(ScanByte(s, 1), LAMBDA A :
        IF ~A.ok THEN VersionCode(0, 0, 0)
        ELSE IF A.next > Len(s) \/ s[A.next] # "." THEN VersionCode(A.val, 0, 0)
        ELSE Let1(ScanByte(s, A.next + 1), LAMBDA B :
            IF ~B.ok THEN VersionCode(A.val, 0, 0)
            ELSE IF B.next > Len(s) \/ s[B.next] # "."
            THEN VersionCode(A.val, B.val, 0)
            ELSE Let1(ScanByte(s, B.next + 1), LAMBDA C :
                VersionCode(A.val, B.val, IF C.ok THEN C.val ELSE 0))))

-----------------------------------------------------------------------------
(* Release-string parsing: bpf.go:284-318 *)

\* releasePattern.FindStringSubmatch(s) for ^(\d+)\.(\d+)(?:.(\d+))?.*$ :
\* <<>> without a match, else <<s, major, minor, patch>>.  The digit runs are
\* greedy, the separator before the third run is "." of the pattern, which
\* matches any character but a newline, and .*$ needs the rest of the text to
\* hold no newline.
releasePattern(s) ==
    Let1(DigitRunEnd(s, 1), LAMBDA e1 :
        IF e1 < 1 \/ e1 + 1 > Len(s) THEN <<>>
        ELSE IF s[e1 + 1] # "." THEN <<>>
        ELSE Let1(DigitRunEnd(s, e1 + 2), LAMBDA e2 :
            IF e2 < e1 + 2 THEN <<>>
            ELSE IF \E k \in (e2 + 1)..Len(s) : s[k] = "\n" THEN <<>>
            ELSE Let1(IF e2 + 1 <= Len(s) THEN DigitRunEnd(s, e2 + 2) ELSE 0,
                      LAMBDA e3 :
                        << s,
                           SubSeq(s, 1, e1),
                           SubSeq(s, e1 + 2, e2),
                           IF e3 >= e2 + 2 THEN SubSeq(s, e2 + 2, e3) ELSE <<>> >>)))

\* lines 294-317 of kernelVersionFromReleaseString, without the clamp of lines
\* 312-314: major, minor and patch are the results of the three ParseUint
PackNoClamp(versionParts, major, minor, patch) ==
    IF major.err # "nil"
    THEN [ok |-> FALSE, val |-> 0, err |-> "strconv", str |-> versionParts[2]]
    ELSE IF minor.err # "nil"
    THEN [ok |-> FALSE, val |-> 0, err |-> "strconv", str |-> versionParts[3]]
    ELSE [ok |-> TRUE,
          val |-> (major.val * 256 * 256) + (minor.val * 256) + patch.val,
          err |-> "nil", str |-> <<>>]

\* lines 294-317 of kernelVersionFromReleaseString: major, minor and patch are
\* the results of the three ParseUint; the error of the third is dropped
PackRelease(versionParts, major, minor, patch) ==
    IF major.err # "nil"
    THEN [ok |-> FALSE, val |-> 0, err |-> "strconv", str |-> versionParts[2]]
    ELSE IF minor.err # "nil"
    THEN [ok |-> FALSE, val |-> 0, err |-> "strconv", str |-> versionParts[3]]
    ELSE [ok |-> TRUE,
          \* uint32(out): all three parts are at most 255, no wrap
          val |-> (major.val * 256 * 256) + (minor.val * 256)
                    + (IF major.val = 4 /\ minor.val = 14 /\ patch.val >= 252
                       THEN 255 ELSE patch.val),
          err |-> "nil", str |-> <<>>]

\* func kernelVersionFromReleaseString(releaseString string) (uint32, error)
kernelVersionFromReleaseString(releaseString) ==
    Let1(releasePattern(releaseString), LAMBDA versionParts :
        IF Len(versionParts) < 3
        THEN [ok |-> FALSE, val |-> 0, err |-> "invalid release version",
              str |-> releaseString]
        ELSE Let1(ParseUint8(versionParts[2]), LAMBDA major :
             Let1(ParseUint8(versionParts[3]), LAMBDA minor :
             Let1(IF Len(versionParts) >= 4 THEN ParseUint8(versionParts[4])
                  ELSE [val |-> 0, err |-> "nil"], LAMBDA patch :
                PackRelease(versionParts, major, minor, patch)))))

-----
(* Inputs of the string functions *)

\* digit runs and separator characters the input strings are built from
NumToks == { <<"0">>, <<"4">>, <<"1", "4">>, <<"2", "5", "2">>, <<"3", "0", "0">> }
SepToks == { <<".">>, <<"-">>, <<"g">> }
IsNum(tok) == tok \in NumToks

\* strings of at most MaxToks lexemes; two digit runs never touch, so that each
\* lexeme is a whole digit run of the string
TokSeqs ==
    { ts \in UNION { [1..n -> NumToks \cup SepToks] : n \in 0..MaxToks } :
        \A i \in 1..(Len(ts) - 1) : ~(IsNum(ts[i]) /\ IsNum(ts[i + 1])) }

ByteSamples == {0, 4, 14, 251, 252, 253, 255}

NoOut == [ok |-> FALSE, val |-> 0, err |-> "none", str |-> <<>>]

ParseIdle ==
    /\ pOp = "none"
    /\ pToks = <<>>
    /\ pIn = <<>>
    /\ pBytes = <<>>
    /\ pOut = NoOut

\* an input is drawn: a string, or three bytes
ParseInit ==
    /\ pOp = "none"
    /\ pOut = NoOut
    /\ \/ /\ pToks \in TokSeqs
          /\ pIn = Flatten(pToks)
          /\ pBytes = <<>>
       \/ /\ pToks = <<>>
          /\ pIn = <<>>
          /\ pBytes \in ByteSamples \X ByteSamples \X ByteSamples

CallKernelVersionFromReleaseString ==
    /\ pOp = "none"
    /\ pBytes = <<>>
    /\ pOp' = "kernelVersionFromReleaseString"
    /\ pOut' = kernelVersionFromReleaseString(pIn)
    /\ UNCHANGED <<pToks, pIn, pBytes>>
    /\ UNCHANGED <<hostVars, featVars, modVars>>

CallVersionCode ==
    /\ pOp = "none"
    /\ pBytes # <<>>
    /\ pOp' = "VersionCode"
    /\ pOut' = [ok |-> TRUE, val |-> VersionCode(pBytes[1], pBytes[2], pBytes[3]),
                err |-> "nil", str |-> <<>>]
    /\ UNCHANGED <<pToks, pIn, pBytes>>
    /\ UNCHANGED <<hostVars, featVars, modVars>>

CallParseVersion ==
    /\ pOp = "none"
    /\ pBytes = <<>>
    /\ pOp' = "ParseVersion"
    /\ pOut' = [ok |-> TRUE, val |-> ParseVersion(pIn), err |-> "nil", str |-> <<>>]
    /\ UNCHANGED <<pToks, pIn, pBytes>>
    /\ UNCHANGED <<hostVars, featVars, modVars>>

ParseNext ==
    \/ CallKernelVersionFromReleaseString
    \/ CallVersionCode
    \/ CallParseVersion

-----------------------------------------------------------------------------
(* Kernel version resolution: bpf.go:164-185, 202-282 *)

\* length of the fields of syscall.Utsname
UtsLen == 65

\* a source that cannot be read (no such file, failing system call)
Missing == [present |-> FALSE, data |-> <<>>]
File(s) == [present |-> TRUE, data |-> s]

\* index of the last character of the word starting at i (i-1: none)
RECURSIVE WordEnd(_, _)
WordEnd(s, i) ==
    IF i <= Len(s) /\ s[i] \notin {" ", "\n"} THEN WordEnd(s, i + 1) ELSE i - 1

\* One %s of fmt.Sscanf reading s from index i: spaces are skipped, a newline
\* or the end of the input is an error, the word runs to the next space or
\* newline.
ScanWord(s, i) ==
    Let1(SpaceRunEnd(s, i), LAMBDA sp :
    Let1(WordEnd(s, sp + 1), LAMBDA e :
        IF e < sp + 1 THEN [ok |-> FALSE, word |-> <<>>, next |-> sp + 1]
        ELSE [ok |-> TRUE, word |-> SubSeq(s, sp + 1, e), next |-> e + 1]))

\* the words the verbs of Sscanf(s, "%s %s %s", ...) read from index i on,
\* n verbs being left; the scan stops at the first verb that fails
RECURSIVE ScanWords(_, _, _)
ScanWords(s, i, n) ==
    IF n = 0 THEN <<>>
    ELSE Let1(ScanWord(s, i),
              LAMBDA w : IF ~w.ok THEN <<>>
                         ELSE <<w.word>> \o ScanWords(s, w.next, n - 1))

\* func parseUbuntuVersion(procVersion string) (uint32, error):
\* Sscanf(procVersion, "%s %s %s", &u1, &u2, &releaseString)
parseUbuntuVersion(procVersion) ==
    Let1(ScanWords(procVersion, 1, 3),
         LAMBDA words :
            IF Len(words) < 3
            THEN [ok |-> FALSE, val |-> 0, err |-> "sscanf", str |-> <<>>]
            ELSE kernelVersionFromReleaseString(words[3]))

\* func currentVersionUbuntu() (uint32, error)
currentVersionUbuntu(file) ==
    IF ~file.present
    THEN [ok |-> FALSE, val |-> 0, err |-> "read", str |-> <<>>]
    ELSE parseUbuntuVersion(file.data)

SmpDebian == <<" ", "S", "M", "P", " ", "D", "e", "b", "i", "a", "n", " ">>

\* Where the capture (\d+\.\d+.\d+-\d+) of debianVersionRegex ends when it is
\* matched from index q of s, 0 when it does not match.  The unescaped "."
\* takes any character but a newline: the character after the second digit
\* run, or, when "-" follows a second run of three digits or more, a digit of
\* that run.
DebianCaptureEnd(s, q) ==
    Let1(DigitRunEnd(s, q), LAMBDA e1 :
        IF e1 < q \/ e1 + 1 > Len(s) THEN 0
        ELSE IF s[e1 + 1] # "." THEN 0
        ELSE Let1(DigitRunEnd(s, e1 + 2), LAMBDA e2 :
            IF e2 < e1 + 2 \/ e2 + 1 > Len(s) THEN 0
            ELSE Let1(DigitRunEnd(s, e2 + 2), LAMBDA e3 :
                 Let1(DigitRunEnd(s, e3 + 2), LAMBDA e4 :
                    IF /\ s[e2 + 1] # "\n"
                       /\ e3 >= e2 + 2
                       /\ e3 + 1 <= Len(s)
                       /\ s[e3 + 1] = "-"
                       /\ e4 >= e3 + 2
                    THEN e4
                    ELSE IF e2 - (e1 + 2) + 1 >= 3 /\ s[e2 + 1] = "-" /\ e3 >= e2 + 2
                    THEN e3
                    ELSE 0))))

\* debianVersionRegex.FindStringSubmatch(str) for
\* .* SMP Debian (\d+\.\d+.\d+-\d+)(?:\+[[:alnum:]]*)?.* : <<>> without a match,
\* else <<whole match, capture>>.  The match starts at the leftmost possible
\* place and its leading .* , which stays within a line, is greedy; the
\* trailing .* runs to the end of the line.
debianVersionRegex(str) ==
    LET lineStart(p) == Min({ i \in 1..p : \A k \in i..(p - 1) : str[k] # "\n" })
        lineEnd(e) == Max({ j \in e..Len(str) : \A k \in (e + 1)..j : str[k] # "\n" })
    IN  Let1({ p \in 1..Len(str) :
                 /\ p + 11 <= Len(str)
                 /\ SubSeq(str, p, p + 11) = SmpDebian
                 /\ DebianCaptureEnd(str, p + 12) > 0 },
             LAMBDA cands :
                IF cands = {} THEN <<>>
                ELSE Let1(Min({ lineStart(p) : p \in cands }),
                          LAMBDA first :
                            Let1(Max({ c \in cands : lineStart(c) = first }),
                                 LAMBDA p :
                                    Let1(DebianCaptureEnd(str, p + 12),
                                         LAMBDA e :
                                            << SubSeq(str, first, lineEnd(e)),
                                               SubSeq(str, p + 12, e) >>))))

\* func parseDebianVersion(str string) (uint32, error)
parseDebianVersion(str) ==
    Let1(debianVersionRegex(str),
         LAMBDA match :
            IF Len(match) # 2
            THEN [ok |-> FALSE, val |-> 0, err |-> "failed to parse kernel version",
                  str |-> str]
            ELSE kernelVersionFromReleaseString(match[2]))

\* func currentVersionDebian() (uint32, error)
currentVersionDebian(file) ==
    IF ~file.present
    THEN [ok |-> FALSE, val |-> 0, err |-> "read", str |-> <<>>]
    ELSE parseDebianVersion(file.data)

\* the Release field of syscall.Utsname holding release: NUL padded
UtsField(release) == release \o [i \in 1..(UtsLen - Len(release)) |-> "NUL"]

\* index of the last character before the first NUL of in, from index i on
RECURSIVE NulStrEnd(_, _)
NulStrEnd(in, i) ==
    IF i <= Len(in) /\ in[i] # "NUL" THEN NulStrEnd(in, i + 1) ELSE i - 1

\* func utsnameStr(in []int8) string: out starts as len(in) zero bytes, and the
\* characters before the first NUL are appended to it
utsnameStr(in) ==
    [i \in 1..Len(in) |-> "NUL"] \o SubSeq(in, 1, NulStrEnd(in, 1))

\* strings.Trim(s, "\x00")
TrimNul(s) ==
    Let1({ i \in 1..Len(s) : s[i] # "NUL" }, LAMBDA keep :
        IF keep = {} THEN <<>> ELSE SubSeq(s, Min(keep), Max(keep)))

\* func currentVersionUname() (uint32, error)
currentVersionUname(uname) ==
    IF ~uname.present
    THEN [ok |-> FALSE, val |-> 0, err |-> "uname", str |-> <<>>]
    ELSE Let1(utsnameStr(UtsField(uname.data)), LAMBDA str :
         Let1(TrimNul(str), LAMBDA releaseString :
            kernelVersionFromReleaseString(releaseString)))

\* CurrentKernelVersion trying the version banner before the signature file
CurrentKernelVersion_BannerFirst(sig, banner, uname) ==
    Let1(currentVersionDebian(banner), LAMBDA d :
        IF d.ok THEN [ret |-> d, log |-> <<"banner">>]
        ELSE Let1(currentVersionUbuntu(sig), LAMBDA u :
            IF u.ok THEN [ret |-> u, log |-> <<"banner", "signature">>]
            ELSE [ret |-> currentVersionUname(uname),
                  log |-> <<"banner", "signature", "uname">>]))

\* func CurrentKernelVersion() (uint32, error), with the strategies it ran
CurrentKernelVersion(sig, banner, uname) ==
    Let1(currentVersionUbuntu(sig), LAMBDA u :
        IF u.ok THEN [ret |-> u, log |-> <<"signature">>]
        ELSE Let1(currentVersionDebian(banner), LAMBDA d :
            IF d.ok THEN [ret |-> d, log |-> <<"signature", "banner">>]
            ELSE [ret |-> currentVersionUname(uname),
                  log |-> <<"signature", "banner", "uname">>]))

\* HostVersion probing on every call and never storing the result
HostVersion_NoCache(cache, sig, banner, uname) ==
    Let1(CurrentKernelVersion(sig, banner, uname), LAMBDA kv :
        IF ~kv.ret.ok
        THEN [ret |-> [ok |-> FALSE, val |-> 0], log |-> kv.log, cache |-> cache]
        ELSE [ret |-> [ok |-> TRUE, val |-> kv.ret.val], log |-> kv.log,
              cache |-> cache])

\* func HostVersion() (Version, error): the value returned, the strategies
\* run, and hostVersion afterwards
HostVersion(cache, sig, banner, uname) ==
    IF cache # 0
    THEN [ret |-> [ok |-> TRUE, val |-> cache], log |-> <<>>, cache |-> cache]
    ELSE Let1(CurrentKernelVersion(sig, banner, uname), LAMBDA kv :
            IF ~kv.ret.ok
            THEN [ret |-> [ok |-> FALSE, val |-> 0], log |-> kv.log, cache |-> cache]
            ELSE [ret |-> [ok |-> TRUE, val |-> kv.ret.val], log |-> kv.log,
                  cache |-> kv.ret.val])

-----------------------------------------------------------------------------
(* The sources HostVersion reads, and its calls *)

NoVal == -1

\* contents of /proc/version_signature:
\*   "Ubuntu 4.14.0-g 4.14.252\n", "Ubuntu 0.0.0-g 0.0.0\n", "Ubuntu 4.14.0-g\n"
SigFiles ==
    { Missing,
      File(<<"U", "b", "u", "n", "t", "u", " ", "4", ".", "1", "4", ".", "0",
           "-", "g", " ", "4", ".", "1", "4", ".", "2", "5", "2",
           "\n">>),
      File(<<"U", "b", "u", "n", "t", "u", " ", "0", ".", "0", ".", "0", "-",
           "g", " ", "0", ".", "0", ".", "0", "\n">>),
      File(<<"U", "b", "u", "n", "t", "u", " ", "4", ".", "1", "4", ".", "0",
           "-", "g", "\n">>) }

\* contents of /proc/version:
\*   "Linux 4.14.0-g SMP Debian 4.14.4-1 g\n", "Linux 14.4.0-g SMP g\n",
\*   "Linux SMP Debian 300.14.0-1\n"
ProcVersions ==
    { Missing,
      File(<<"L", "i", "n", "u", "x", " ", "4", ".", "1", "4", ".", "0", "-",
           "g", " ", "S", "M", "P", " ", "D", "e", "b", "i", "a",
           "n", " ", "4", ".", "1", "4", ".", "4", "-", "1", " ",
           "g", "\n">>),
      File(<<"L", "i", "n", "u", "x", " ", "1", "4", ".", "4", ".", "0", "-",
           "g", " ", "S", "M", "P", " ", "g", "\n">>),
      File(<<"L", "i", "n", "u", "x", " ", "S", "M", "P", " ", "D", "e", "b",
           "i", "a", "n", " ", "3", "0", "0", ".", "1", "4", ".",
           "0", "-", "1", "\n">>) }

\* release fields of uname(2): "14.4-g", "0.0", "g-14"
Unames ==
    { Missing,
      File(<<"1", "4", ".", "4", "-", "g">>),
      File(<<"0", ".", "0">>),
      File(<<"g", "-", "1", "4">>) }

HostIdle ==
    /\ hostVersion = 0
    /\ sigFile = Missing
    /\ versionFile = Missing
    /\ unameRel = Missing
    /\ hvRet = [ok |-> FALSE, val |-> 0]
    /\ hvLog = <<>>
    /\ hvFresh = FALSE
    /\ hvCalls = 0
    /\ firstOk = NoVal
    /\ firstNZ = NoVal
    /\ hadOk = NoVal
    /\ hadNZ = NoVal

\* the process starts with hostVersion zero, on any host
HostInit ==
    /\ hostVersion = 0
    /\ sigFile \in SigFiles
    /\ versionFile \in ProcVersions
    /\ unameRel \in Unames
    /\ hvRet = [ok |-> FALSE, val |-> 0]
    /\ hvLog = <<>>
    /\ hvFresh = FALSE
    /\ hvCalls = 0
    /\ firstOk = NoVal
    /\ firstNZ = NoVal
    /\ hadOk = NoVal
    /\ hadNZ = NoVal

CallHostVersion ==
    /\ hvCalls < MaxCalls
    /\ \E r \in {HostVersion(hostVersion, sigFile, versionFile, unameRel)} :
           /\ hostVersion' = r.cache
           /\ hvRet' = r.ret
           /\ hvLog' = r.log
           /\ firstOk' = IF firstOk = NoVal /\ r.ret.ok THEN r.ret.val ELSE firstOk
           /\ firstNZ' = IF firstNZ = NoVal /\ r.ret.ok /\ r.ret.val # 0
                         THEN r.ret.val ELSE firstNZ
    /\ hadOk' = firstOk
    /\ hadNZ' = firstNZ
    /\ hvFresh' = TRUE
    /\ hvCalls' = hvCalls + 1
    /\ UNCHANGED <<sigFile, versionFile, unameRel>>
    /\ UNCHANGED <<parseVars, featVars, modVars>>

ChangeSigFile ==
    /\ \E f \in SigFiles \ {sigFile} : sigFile' = f
    /\ hvFresh' = FALSE
    /\ UNCHANGED <<hostVersion, versionFile, unameRel, hvRet, hvLog, hvCalls,
                   firstOk, firstNZ, hadOk, hadNZ>>
    /\ UNCHANGED <<parseVars, featVars, modVars>>

ChangeVersionFile ==
    /\ \E f \in ProcVersions \ {versionFile} : versionFile' = f
    /\ hvFresh' = FALSE
    /\ UNCHANGED <<hostVersion, sigFile, unameRel, hvRet, hvLog, hvCalls,
                   firstOk, firstNZ, hadOk, hadNZ>>
    /\ UNCHANGED <<parseVars, featVars, modVars>>

ChangeUname ==
    /\ \E f \in Unames \ {unameRel} : unameRel' = f
    /\ hvFresh' = FALSE
    /\ UNCHANGED <<hostVersion, sigFile, versionFile, hvRet, hvLog, hvCalls,
                   firstOk, firstNZ, hadOk, hadNZ>>
    /\ UNCHANGED <<parseVars, featVars, modVars>>

HostNext ==
    \/ CallHostVersion
    \/ ChangeSigFile
    \/ ChangeVersionFile
    \/ ChangeUname

-----------------------------------------------------------------------------
(* Feature detection: bpf.go:61-146 *)

ConfigBTF == "CONFIG_DEBUG_INFO_BTF"
RequiredItems == <<"CONFIG_BPF", "CONFIG_UPROBES", "CONFIG_ARCH_SUPPORTS_UPROBES">>
ConfigKeys == {ConfigBTF, "CONFIG_BPF", "CONFIG_UPROBES", "CONFIG_ARCH_SUPPORTS_UPROBES"}
ConfigValues == {"y", "n", "m"}

\* what GetSystemConfig can return: an error, or a map holding some of the keys
Unreadable == [readable |-> FALSE, map |-> <<>>]
Configs ==
    {Unreadable} \cup
    { [readable |-> TRUE, map |-> m] :
        m \in UNION { [D -> ConfigValues] : D \in SUBSET ConfigKeys } }

NilErr == [kind |-> "nil", item |-> ""]
Src(name, i) == [src |-> name, idx |-> i]

\* func findVMLinux() (bool, error): the release string comes first, then the
\* locations are tried in order and the first existing path ends the scan; the
\* error returned after the loop is the nil one of getOSUnamer
RECURSIVE ScanLocations(_, _, _)
ScanLocations(locs, i, log) ==
    IF i > Len(locs) THEN [found |-> FALSE, err |-> NilErr, log |-> log]
    ELSE IF locs[i] THEN [found |-> TRUE, err |-> NilErr,
                          log |-> Append(log, Src("location", i))]
    ELSE ScanLocations(locs, i + 1, Append(log, Src("location", i)))

findVMLinux(uname, locs, log) ==
    IF ~uname
    THEN [found |-> FALSE, err |-> [kind |-> "uname", item |-> ""],
          log |-> Append(log, Src("uname", 0))]
    ELSE ScanLocations(locs, 1, Append(log, Src("uname", 0)))

\* func checkKernelBTF() (bool, error)
checkKernelBTF(fixed, uname, locs) ==
    IF fixed
    THEN [found |-> TRUE, err |-> NilErr, log |-> <<Src("fixed", 0)>>]
    ELSE findVMLinux(uname, locs, <<Src("fixed", 0)>>)

\* IsEnableBTF giving up on an error of checkKernelBTF instead of falling back
IsEnableBTF_NoFallback(fixed, uname, locs, conf) ==
    LET c == checkKernelBTF(fixed, uname, locs)
        log == Append(c.log, Src("config", 0))
    IN  IF c.err.kind # "nil" THEN [val |-> FALSE, err |-> c.err, log |-> c.log]
        ELSE IF c.found THEN [val |-> TRUE, err |-> NilErr, log |-> c.log]
        ELSE IF ~conf.readable
        THEN [val |-> FALSE, err |-> [kind |-> "read", item |-> ""], log |-> log]
        ELSE IF ConfigBTF \notin DOMAIN conf.map
        THEN [val |-> FALSE, err |-> NilErr, log |-> log]
        ELSE IF conf.map[ConfigBTF] # "y"
        THEN [val |-> FALSE, err |-> NilErr, log |-> log]
        ELSE [val |-> TRUE, err |-> NilErr, log |-> log]

\* func IsEnableBTF() (bool, error), with the sources it consulted
IsEnableBTF(fixed, uname, locs, conf) ==
    LET c == checkKernelBTF(fixed, uname, locs)
        log == Append(c.log, Src("config", 0))
    IN  IF c.err.kind = "nil" /\ c.found
        THEN [val |-> TRUE, err |-> NilErr, log |-> c.log]
        ELSE IF ~conf.readable
        THEN [val |-> FALSE, err |-> [kind |-> "read", item |-> ""], log |-> log]
        ELSE IF ConfigBTF \notin DOMAIN conf.map
        THEN [val |-> FALSE, err |-> NilErr, log |-> log]
        ELSE IF conf.map[ConfigBTF] # "y"
        THEN [val |-> FALSE, err |-> NilErr, log |-> log]
        ELSE [val |-> TRUE, err |-> NilErr, log |-> log]

\* the loop of IsEnableBPF from item i on
RECURSIVE CheckItems(_, _, _)
CheckItems(map, items, i) ==
    IF i > Len(items) THEN [val |-> TRUE, err |-> NilErr]
    ELSE IF items[i] \notin DOMAIN map
    THEN [val |-> FALSE, err |-> [kind |-> "Config not found", item |-> items[i]]]
    ELSE IF map[items[i]] # "y"
    THEN [val |-> FALSE, err |-> [kind |-> "Config disabled", item |-> items[i]]]
    ELSE CheckItems(map, items, i + 1)

\* IsEnableBPF leaving the last required item unchecked
IsEnableBPF_SkipLast(conf) ==
    IF ~conf.readable
    THEN [val |-> FALSE, err |-> [kind |-> "read", item |-> ""]]
    ELSE CheckItems(conf.map, SubSeq(RequiredItems, 1, Len(RequiredItems) - 1), 1)

\* func IsEnableBPF() (bool, error)
IsEnableBPF(conf) ==
    IF ~conf.readable
    THEN [val |-> FALSE, err |-> [kind |-> "read", item |-> ""]]
    ELSE CheckItems(conf.map, RequiredItems, 1)

NoFeatRet == [val |-> FALSE, err |-> NilErr]

FeatIdle ==
    /\ kernelConfig = Unreadable
    /\ fixedBTF = FALSE
    /\ unameOk = FALSE
    /\ locExists = [i \in 1..NumLocations |-> FALSE]
    /\ fOp = "none"
    /\ fRet = NoFeatRet
    /\ fLog = <<>>

\* any host: any kernel configuration and any set of existing paths
FeatInit ==
    /\ kernelConfig \in Configs
    /\ fixedBTF \in BOOLEAN
    /\ unameOk \in BOOLEAN
    /\ locExists \in [1..NumLocations -> BOOLEAN]
    /\ fOp = "none"
    /\ fRet = NoFeatRet
    /\ fLog = <<>>

CallIsEnableBTF ==
    /\ LET r == IsEnableBTF(fixedBTF, unameOk, locExists, kernelConfig)
       IN  /\ fRet' = [val |-> r.val, err |-> r.err]
           /\ fLog' = r.log
    /\ fOp' = "IsEnableBTF"
    /\ UNCHANGED <<kernelConfig, fixedBTF, unameOk, locExists>>
    /\ UNCHANGED <<parseVars, hostVars, modVars>>

CallIsEnableBPF ==
    /\ fRet' = IsEnableBPF(kernelConfig)
    /\ fLog' = <<Src("config", 0)>>
    /\ fOp' = "IsEnableBPF"
    /\ UNCHANGED <<kernelConfig, fixedBTF, unameOk, locExists>>
    /\ UNCHANGED <<parseVars, hostVars, modVars>>

FeatNext ==
    \/ CallIsEnableBTF
    \/ CallIsEnableBPF

-----------------------------------------------------------------------------
(* PostgresModule: part_000 *)

NilMgr == 0
Managers == 1..MaxManagers
\* map handles: the events map of each manager, and a map of another module
ForeignMap == 0
Handles == {ForeignMap} \cup Managers

NilMap == [nil |-> TRUE, m |-> <<>>]
EmptyMap == [nil |-> FALSE, m |-> <<>>]
NoDecode == [fun |-> "nil", found |-> FALSE]

BaseName == "user/bytecode/postgres_kern.o"

\* Module.geteBPFName: the portable or the version-pinned variant of filename
geteBPFName(filename, core) ==
    IF core THEN <<filename, "core">> ELSE <<filename, "noncore">>

\* the name handed to assets.Asset by Start (part_000:59)
AssetName(filename) == <<filename, "">>

StartErrors ==
    { "couldn't find asset", "couldn't find binPath", "couldn't init manager",
      "couldn't start bootstrap manager", "GetMap error", "cant found map: events" }

Range(s) == { s[i] : i \in DOMAIN s }

\* func (postgresModule *PostgresModule) Events() []*ebpf.Map
Events(em) == em

\* func (postgresModule *PostgresModule) DecodeFun(em *ebpf.Map): a read of a
\* Go map, which yields the zero value and false for a missing key and for a
\* nil map
DecodeFun(efm, em) ==
    IF em \in DOMAIN efm.m
    THEN [fun |-> efm.m[em], found |-> TRUE]
    ELSE [fun |-> "nil", found |-> FALSE]

\* initDecodeFun binding the decoder without exposing the map in Events()
initDecodeFun_NoAppend(getMap, h, em, efm) ==
    IF getMap = "err" THEN [err |-> "GetMap error", em |-> em, efm |-> efm]
    ELSE IF getMap = "notfound"
    THEN [err |-> "cant found map: events", em |-> em, efm |-> efm]
    ELSE [err |-> "nil",
          em  |-> em,
          efm |-> [nil |-> FALSE,
                   m |-> [x \in DOMAIN efm.m \cup {h} |->
                            IF x = h THEN "PostgresEvent" ELSE efm.m[x]]]]

\* func (postgresModule *PostgresModule) initDecodeFun() error, where getMap is
\* what bpfManager.GetMap("events") returns and h the handle it yields
initDecodeFun(getMap, h, em, efm) ==
    IF getMap = "err" THEN [err |-> "GetMap error", em |-> em, efm |-> efm]
    ELSE IF getMap = "notfound"
    THEN [err |-> "cant found map: events", em |-> em, efm |-> efm]
    ELSE [err |-> "nil",
          em  |-> Append(em, h),
          efm |-> [nil |-> FALSE,
                   m |-> [x \in DOMAIN efm.m \cup {h} |->
                            IF x = h THEN "PostgresEvent" ELSE efm.m[x]]]]

ModIdle ==
    /\ inited = FALSE
    /\ isCoreUsed = FALSE
    /\ bpfManager = NilMgr
    /\ mgrState = [m \in Managers |-> "none"]
    /\ attached = {}
    /\ nextMgr = 0
    /\ eventMaps = <<>>
    /\ eventFuncMaps = NilMap
    /\ crashed = FALSE
    /\ mOp = "none"
    /\ mRet = "none"
    /\ registered = {}
    /\ lastStart = "no init"
    /\ newlyAttached = {}
    /\ resolvedName = <<>>
    /\ loadedAsset = <<>>
    /\ attachOrder = <<>>
    /\ decodeRet = NoDecode
    /\ decodeArg = ForeignMap
    /\ eventsRet = <<>>

\* func init(): mod := &PostgresModule{}, every field zero
ModInit == ModIdle

\* what a call leaves of the previous call's observations
Observe(op, ret) ==
    /\ mOp' = op
    /\ mRet' = ret
    /\ decodeRet' = NoDecode
    /\ decodeArg' = ForeignMap
    /\ eventsRet' = <<>>

\* func (postgresModule *PostgresModule) Init(ctx, logger, conf) error
\* Module.Init settles the portable-support boolean of the module.
ModuleInit ==
    /\ ~crashed
    /\ \E core \in BOOLEAN : isCoreUsed' = core
    /\ inited' = TRUE
    /\ eventMaps' = <<>>
    /\ eventFuncMaps' = EmptyMap
    /\ lastStart' = "none"
    /\ Observe("Init", "nil")
    /\ UNCHANGED <<bpfManager, mgrState, attached, nextMgr, crashed, registered,
                   newlyAttached, resolvedName, loadedAsset, attachOrder>>
    /\ UNCHANGED <<parseVars, hostVars, featVars>>

\* func (postgresModule *PostgresModule) Start() error, with setupManagers and
\* initDecodeFun.  assetOk: assets.Asset finds the asset; pathOk: os.Stat finds
\* the target binary; initOk, startOk: InitWithOptions and the manager's Start
\* return nil; getMap: what GetMap("events") returns; a step that is not
\* reached has no outcome to choose.  The manager declares one probe, so a
\* manager Start that fails over the attach has attached nothing.
ModuleStart ==
    /\ ~crashed
    /\ \E assetOk \in BOOLEAN :
       \E pathOk \in IF assetOk THEN BOOLEAN ELSE {FALSE} :
       \E initOk \in IF pathOk THEN BOOLEAN ELSE {FALSE} :
       \E startOk \in IF initOk THEN BOOLEAN ELSE {FALSE} :
       \E getMap \in IF startOk THEN {"found", "notfound", "err"} ELSE {"err"} :
        IF ~inited
        THEN \* logger is nil: Printf panics (part_000:57)
             /\ crashed' = TRUE
             /\ Observe("Start", "panic")
             /\ UNCHANGED <<inited, isCoreUsed, bpfManager, mgrState, attached,
                            nextMgr, eventMaps, eventFuncMaps, registered,
                            lastStart, newlyAttached, resolvedName, loadedAsset,
                            attachOrder>>
        ELSE
          /\ (assetOk /\ pathOk) => nextMgr < MaxManagers
          /\ LET id == nextMgr + 1
                 made == assetOk /\ pathOk
                 loaded == made /\ initOk
                 running == loaded /\ startOk
                 bind == IF running
                         THEN initDecodeFun(getMap, id, eventMaps, eventFuncMaps)
                         ELSE [err |-> "nil", em |-> eventMaps, efm |-> eventFuncMaps]
                 ret == IF ~assetOk THEN "couldn't find asset"
                        ELSE IF ~pathOk THEN "couldn't find binPath"
                        ELSE IF ~initOk THEN "couldn't init manager"
                        ELSE IF ~startOk THEN "couldn't start bootstrap manager"
                        ELSE bind.err
             IN  /\ resolvedName' = geteBPFName(BaseName, isCoreUsed)
                 /\ loadedAsset' = AssetName(BaseName)
                 /\ attachOrder' = IF ~assetOk THEN <<>>
                                   ELSE IF ~running THEN <<"stat">>
                                   ELSE <<"stat", "attach">>
                 /\ bpfManager' = IF made THEN id ELSE bpfManager
                 /\ nextMgr' = IF made THEN id ELSE nextMgr
                 /\ mgrState' = IF ~made THEN mgrState
                                ELSE [mgrState EXCEPT ![id] =
                                        IF running THEN "running"
                                        ELSE IF loaded THEN "initialized"
                                        ELSE "constructed"]
                 /\ attached' = IF running THEN attached \cup {id} ELSE attached
                 /\ newlyAttached' = IF running THEN {id} ELSE {}
                 /\ eventMaps' = bind.em
                 /\ eventFuncMaps' = bind.efm
                 /\ registered' = registered \cup (DOMAIN bind.efm.m \ DOMAIN eventFuncMaps.m)
                 /\ lastStart' = IF ret = "nil" THEN "ok" ELSE ret
                 /\ Observe("Start", ret)
                 /\ UNCHANGED <<inited, isCoreUsed, crashed>>
    /\ UNCHANGED <<parseVars, hostVars, featVars>>

\* func (postgresModule *PostgresModule) Close() error.  bpfManager.Stop on a nil
\* manager dereferences it; on a manager it detaches that manager's probe, and
\* stopErr is whether it reports an error; closeErr is what Module.Close
\* returns.
ModuleClose ==
    /\ ~crashed
    /\ \E stopErr \in BOOLEAN, closeErr \in BOOLEAN :
        IF bpfManager = NilMgr
        THEN /\ crashed' = TRUE
             /\ Observe("Close", "panic")
             /\ UNCHANGED <<mgrState, attached>>
        ELSE /\ crashed' = FALSE
             /\ attached' = attached \ {bpfManager}
             /\ mgrState' = [mgrState EXCEPT ![bpfManager] = "stopped"]
             /\ Observe("Close",
                        IF stopErr THEN "couldn't stop manager"
                        ELSE IF closeErr THEN "module close error" ELSE "nil")
    /\ UNCHANGED <<inited, isCoreUsed, bpfManager, nextMgr, eventMaps,
                   eventFuncMaps, registered, lastStart, newlyAttached,
                   resolvedName, loadedAsset, attachOrder>>
    /\ UNCHANGED <<parseVars, hostVars, featVars>>

CallDecodeFun ==
    /\ ~crashed
    /\ \E h \in Handles :
        /\ decodeArg' = h
        /\ decodeRet' = DecodeFun(eventFuncMaps, h)
    /\ mOp' = "DecodeFun"
    /\ mRet' = "nil"
    /\ eventsRet' = <<>>
    /\ UNCHANGED <<inited, isCoreUsed, bpfManager, mgrState, attached, nextMgr,
                   eventMaps, eventFuncMaps, crashed, registered, lastStart,
                   newlyAttached, resolvedName, loadedAsset, attachOrder>>
    /\ UNCHANGED <<parseVars, hostVars, featVars>>

CallEvents ==
    /\ ~crashed
    /\ eventsRet' = Events(eventMaps)
    /\ mOp' = "Events"
    /\ mRet' = "nil"
    /\ decodeRet' = NoDecode
    /\ decodeArg' = ForeignMap
    /\ UNCHANGED <<inited, isCoreUsed, bpfManager, mgrState, attached, nextMgr,
                   eventMaps, eventFuncMaps, crashed, registered, lastStart,
                   newlyAttached, resolvedName, loadedAsset, attachOrder>>
    /\ UNCHANGED <<parseVars, hostVars, featVars>>

ModNext ==
    \/ ModuleInit
    \/ ModuleStart
    \/ ModuleClose
    \/ CallDecodeFun
    \/ CallEvents

-----------------------------------------------------------------------------
(* Specifications *)

\* the string functions applied to every input
InitParse == ParseInit /\ HostIdle /\ FeatIdle /\ ModIdle
SpecParse == InitParse /\ [][ParseNext]_vars

\* HostVersion called while the sources change
InitHost == ParseIdle /\ HostInit /\ FeatIdle /\ ModIdle
SpecHost == InitHost /\ [][HostNext]_vars

\* the feature checks on every host
InitFeat == ParseIdle /\ HostIdle /\ FeatInit /\ ModIdle
SpecFeat == InitFeat /\ [][FeatNext]_vars

\* the life of one PostgresModule
Init == ParseIdle /\ HostIdle /\ FeatIdle /\ ModInit
Next == ModNext
Spec == Init /\ [][Next]_vars

-----------------------------------------------------------------------------
(* Properties of PostgresModule, under Spec *)

\* C1: Close called after Init alone, or after a Start that failed at any
\* stage, returns without a runtime panic and leaves no probe of the module
\* attached.
C1_CloseSafeAfterFailedStart ==
    (mOp = "Close" /\ lastStart \in {"none"} \cup StartErrors)
        => (mRet # "panic" /\ ~crashed /\ attached = {})

\* C2: when Start returns an error it has left nothing attached, and the target
\* binary is looked up before any attach.
C2_FailedStartLeavesNothingAttached ==
    (mOp = "Start" /\ mRet \in StartErrors)
        => /\ newlyAttached = {}
           /\ "attach" \in Range(attachOrder) => attachOrder[1] = "stat"

\* C3: the asset Start fetches is the variant geteBPFName resolved, for both
\* values of the portable-support boolean.
C3_LoadedAssetIsResolvedVariant ==
    (mOp = "Start" /\ mRet # "panic") => loadedAsset = resolvedName

\* C10: DecodeFun(h) finds a decoder, and a non-nil one, exactly when h occurs
\* in Events(); no handle occurs twice in Events(); a handle the module never
\* registered is not found and yields the nil decoder; a DecodeFun call never
\* panics, before Init or Start either.
C10_DecodeBindingOneToOne ==
    /\ \A h \in Handles :
          /\ DecodeFun(eventFuncMaps, h).found <=> h \in Range(Events(eventMaps))
          /\ DecodeFun(eventFuncMaps, h).found <=> DecodeFun(eventFuncMaps, h).fun # "nil"
          /\ h \notin registered => DecodeFun(eventFuncMaps, h) = NoDecode
    /\ \A i \in DOMAIN eventMaps : \A j \in DOMAIN eventMaps :
          i # j => eventMaps[i] # eventMaps[j]
    /\ mOp = "DecodeFun" =>
          /\ ~crashed
          /\ decodeRet.found <=> decodeArg \in Range(eventMaps)
          /\ decodeRet.found <=> decodeRet.fun # "nil"

\* a second Start has bound a second map, and DecodeFun finds its decoder
C10_Witness ==
    /\ mOp = "DecodeFun"
    /\ Len(eventMaps) = 2
    /\ decodeArg = eventMaps[2]
    /\ decodeRet = [fun |-> "PostgresEvent", found |-> TRUE]

-----------------------------------------------------------------------------
(* Properties of HostVersion, under SpecHost *)

\* C4: a call that probes tries the signature file, then the version banner,
\* then uname, stops at the first strategy that succeeds and returns its
\* result; a failing strategy does not end the resolution, and the call fails
\* only when all three fail.
C4_FirstSuccessInOrder ==
    (hvCalls > 0 /\ hvFresh /\ hvLog # <<>>) =>
        LET u == currentVersionUbuntu(sigFile)
            d == currentVersionDebian(versionFile)
            n == currentVersionUname(unameRel)
        IN  /\ hvLog = IF u.ok THEN <<"signature">>
                       ELSE IF d.ok THEN <<"signature", "banner">>
                       ELSE <<"signature", "banner", "uname">>
            /\ hvRet.ok <=> (u.ok \/ d.ok \/ n.ok)
            /\ hvRet.ok => hvRet.val = IF u.ok THEN u.val
                                       ELSE IF d.ok THEN d.val ELSE n.val

\* both files are there and both strategies fail on their content; uname gives
\* the version
C4_Witness ==
    /\ hvCalls > 0 /\ hvFresh
    /\ sigFile.present /\ versionFile.present
    /\ hvLog = <<"signature", "banner", "uname">>
    /\ hvRet = [ok |-> TRUE, val |-> 918528]

\* C5 as stated: once a call has succeeded with v, every later call returns v
\* and probes nothing; a failed call leaves the cache unset.
C5_CachedAfterFirstSuccess ==
    /\ (hvCalls > 0 /\ hadOk # NoVal) =>
          (hvRet.ok /\ hvRet.val = hadOk /\ hvLog = <<>>)
    /\ (hvCalls > 0 /\ ~hvRet.ok) => hostVersion = 0

\* C5, amended: once a call has succeeded with a non-zero v, every later call
\* returns v and probes nothing, whatever has become of the sources; until
\* then (after failed calls, and after calls that resolved version 0) the
\* cache is unset and a call probes again.
C5_CachedAfterFirstNonZeroSuccess ==
    /\ (hvCalls > 0 /\ hadNZ # NoVal) =>
          (hvRet.ok /\ hvRet.val = hadNZ /\ hvLog = <<>>)
    /\ (hvCalls > 0 /\ hadNZ = NoVal) => hvLog # <<>>
    /\ (hvCalls > 0 /\ ~hvRet.ok) => hostVersion = 0
    /\ firstNZ = NoVal <=> hostVersion = 0

\* the cached version is returned after every source has become unreadable
C5_Witness ==
    /\ hvCalls >= 2
    /\ hadNZ # NoVal
    /\ hvFresh
    /\ ~sigFile.present /\ ~versionFile.present /\ ~unameRel.present
    /\ hvRet = [ok |-> TRUE, val |-> hadNZ]
    /\ hvLog = <<>>

-----------------------------------------------------------------------------
(* Properties of the string functions, under SpecParse *)

Dot == <<".">>
Pack(major, minor, patch) == (major * 65536) + (minor * 256) + patch
Clamp(major, minor, patch) ==
    IF major = 4 /\ minor = 14 /\ patch >= 252 THEN 255 ELSE patch

\* the string starts with digits "." digits
LeadingMajorMinor(ts) ==
    Len(ts) >= 3 /\ IsNum(ts[1]) /\ ts[2] = Dot /\ IsNum(ts[3])
\* the third dotted component, 0 when "." digits does not follow the minor
DottedPatch(ts) ==
    IF Len(ts) >= 5 /\ ts[4] = Dot /\ IsNum(ts[5]) THEN DecimalValue(ts[5]) ELSE 0
\* the digits that follow the minor and one more character, 0 when there are none
ThirdRun(ts) ==
    IF Len(ts) >= 5 /\ ~IsNum(ts[4]) /\ IsNum(ts[5]) THEN DecimalValue(ts[5]) ELSE 0
Cap255(n) == IF n > 255 THEN 255 ELSE n

\* C6: a string with a leading digits.digits parses to its major and minor and
\* to the patch of an immediately following .digits, 0 without one; any other
\* string is rejected with an error that names it.
C6_ReleaseStringParsing ==
    pOp = "kernelVersionFromReleaseString" =>
        IF LeadingMajorMinor(pToks)
        THEN ( /\ DecimalValue(pToks[1]) <= 255
               /\ DecimalValue(pToks[3]) <= 255
               /\ DottedPatch(pToks) <= 255 ) =>
                 /\ pOut.ok
                 /\ pOut.val = Pack(DecimalValue(pToks[1]), DecimalValue(pToks[3]),
                                    Clamp(DecimalValue(pToks[1]),
                                          DecimalValue(pToks[3]), DottedPatch(pToks)))
        ELSE /\ ~pOut.ok
             /\ pOut.err = "invalid release version"
             /\ pOut.str = pIn

\* C7 as stated: every version is packed from components in 0..255, and
\* whatever produced it, major 4 minor 14 with a patch of 252 or more has patch
\* component 255, any other input its patch unchanged.
C7_ClampByEveryProducer ==
    /\ pOut.val \div 65536 \in 0..255
    /\ pOp = "VersionCode" =>
          pOut.val = Pack(pBytes[1], pBytes[2], Clamp(pBytes[1], pBytes[2], pBytes[3]))
    /\ (pOp = "kernelVersionFromReleaseString" /\ pOut.ok) =>
          pOut.val = Pack(DecimalValue(pToks[1]), DecimalValue(pToks[3]),
                          Clamp(DecimalValue(pToks[1]), DecimalValue(pToks[3]),
                                Cap255(ThirdRun(pToks))))

\* C7, amended: a version parsed from a release string is packed from
\* components in 0..255 and has patch component 255 for major 4 minor 14 and a
\* parsed patch of 252 or more, else the parsed patch (at most 255, 0 when
\* there is none); VersionCode and ParseVersion pack the bytes they are given
\* unchanged, 4.14.252 and above included.
C7_ClampOnReleaseParsing ==
    /\ pOut.val \div 65536 \in 0..255
    /\ pOp = "VersionCode" => pOut.val = Pack(pBytes[1], pBytes[2], pBytes[3])
    /\ (pOp = "kernelVersionFromReleaseString" /\ pOut.ok) =>
          /\ LeadingMajorMinor(pToks)
          /\ pOut.val = Pack(DecimalValue(pToks[1]), DecimalValue(pToks[3]),
                             Clamp(DecimalValue(pToks[1]), DecimalValue(pToks[3]),
                                   Cap255(ThirdRun(pToks))))
    /\ ( /\ pOp = "ParseVersion"
         /\ Len(pToks) = 5 /\ LeadingMajorMinor(pToks)
         /\ pToks[4] = Dot /\ IsNum(pToks[5])
         /\ \A i \in {1, 3, 5} : DecimalValue(pToks[i]) <= 255 ) =>
          pOut.val = Pack(DecimalValue(pToks[1]), DecimalValue(pToks[3]),
                          DecimalValue(pToks[5]))

\* "4.14.252" parses to 4.14.255
C7_Witness ==
    /\ pOp = "kernelVersionFromReleaseString"
    /\ pIn = <<"4", ".", "1", "4", ".", "2", "5", "2">>
    /\ pOut.ok
    /\ pOut.val = Pack(4, 14, 255)

-----------------------------------------------------------------------------
(* Properties of the feature checks, under SpecFeat *)

\* the required items the configuration lacks or does not set to "y"
BadItems(map) ==
    { RequiredItems[i] : i \in { k \in DOMAIN RequiredItems :
        RequiredItems[k] \notin DOMAIN map \/ map[RequiredItems[k]] # "y" } }

\* C8: on a configuration that can be read, IsEnableBPF succeeds exactly when
\* the three required items are all "y"; otherwise it fails naming one item,
\* which is absent or not "y", and says rightly which of the two.
C8_MinimumSupport ==
    (fOp = "IsEnableBPF" /\ kernelConfig.readable) =>
        /\ fRet.val <=> BadItems(kernelConfig.map) = {}
        /\ fRet.val <=> fRet.err = NilErr
        /\ ~fRet.val =>
              /\ fRet.err.item \in BadItems(kernelConfig.map)
              /\ fRet.err.kind \in {"Config not found", "Config disabled"}
              /\ fRet.err.kind = "Config not found"
                    <=> fRet.err.item \notin DOMAIN kernelConfig.map

\* only CONFIG_ARCH_SUPPORTS_UPROBES is off, and the error names it as disabled
C8_Witness ==
    /\ fOp = "IsEnableBPF"
    /\ kernelConfig.readable
    /\ BadItems(kernelConfig.map) = {"CONFIG_ARCH_SUPPORTS_UPROBES"}
    /\ fRet = [val |-> FALSE,
               err |-> [kind |-> "Config disabled",
                        item |-> "CONFIG_ARCH_SUPPORTS_UPROBES"]]

\* rank of a source in the order fixed path, release string, locations, config
SrcRank(x) ==
    CASE x.src = "fixed" -> 0
      [] x.src = "uname" -> 1
      [] x.src = "location" -> 1 + x.idx
      [] x.src = "config" -> 2 + NumLocations

\* C9: IsEnableBTF consults the fixed path, the candidate paths, the config, in
\* that order, and answers true at the first that reports presence without
\* consulting a later one; with no path present and a readable config it
\* answers by CONFIG_DEBUG_INFO_BTF = "y", false without an error otherwise; it
\* returns an error only when a source cannot be read.
C9_PortableSupport ==
    fOp = "IsEnableBTF" =>
        /\ \A i \in DOMAIN fLog : \A j \in DOMAIN fLog :
              i < j => SrcRank(fLog[i]) < SrcRank(fLog[j])
        /\ fLog[1] = Src("fixed", 0)
        /\ fixedBTF => (fRet = [val |-> TRUE, err |-> NilErr] /\ Len(fLog) = 1)
        /\ (~fixedBTF /\ unameOk /\ \E i \in DOMAIN locExists : locExists[i]) =>
              /\ fRet = [val |-> TRUE, err |-> NilErr]
              /\ fLog[Len(fLog)] =
                    Src("location", Min({ i \in DOMAIN locExists : locExists[i] }))
        /\ ( /\ ~fixedBTF
             /\ \A i \in DOMAIN locExists : ~locExists[i]
             /\ kernelConfig.readable ) =>
              /\ fRet.err = NilErr
              /\ fRet.val <=> ( /\ ConfigBTF \in DOMAIN kernelConfig.map
                                /\ kernelConfig.map[ConfigBTF] = "y" )
              /\ fLog[Len(fLog)] = Src("config", 0)
        /\ fRet.err # NilErr => (~fRet.val /\ ~kernelConfig.readable)

\* no type information on disk; the config flag gives the answer
C9_Witness ==
    /\ fOp = "IsEnableBTF"
    /\ ~fixedBTF /\ unameOk
    /\ \A i \in DOMAIN locExists : ~locExists[i]
    /\ kernelConfig.readable
    /\ ConfigBTF \in DOMAIN kernelConfig.map
    /\ kernelConfig.map[ConfigBTF] = "y"
    /\ fRet = [val |-> TRUE, err |-> NilErr]
    /\ Len(fLog) = 3 + NumLocations

====
